---- MODULE Spec2Model ----
(***************************************************************************)
(* Model of the weather page component (src/weather_app.tsx): the input   *)
(* classifier, the debounced autosuggest flow and the resolution flow     *)
(* (submit / pick suggestion / use my location) with their asynchronous   *)
(* continuations.  Texts are sequences of one-character strings, numbers  *)
(* are integers in thousandths (27.95 is 27950).                          *)
(***************************************************************************)
EXTENDS Integers, Sequences, FiniteSets, TLC

\* ---------------------------------------------------------------- bounds
MaxEvents == 3       \* user intents (edit, submit, pick, locate) in one behaviour
MaxResults == 6      \* longest results array the geocoding service returns
MaxPick == 2         \* the user clicks one of the first MaxPick suggestions
MaxDays == 7         \* longest daily series the forecast service returns

\* ------------------------------------------------------ program constants
SuggestCount == 5    \* count=5 of the suggest request
Scale == 1000        \* thousandths: the three decimals of toFixed(3)
LatLimit == 90
LonLimit == 180

NULL == [null |-> TRUE]            \* null where an object is expected
Absent == [undefined |-> TRUE]     \* an object-valued field that is missing
AbsentText == <<"undefined">>      \* a text-valued field that is missing
NoError == "null"                  \* null where a message is expected

\* ------------------------------------------------------------------ texts
DigitChars == <<"0", "1", "2", "3", "4", "5", "6", "7", "8", "9">>

IsDigit(c) == \E i \in 1..10 : DigitChars[i] = c

DigitVal(c) == (CHOOSE i \in 1..10 : DigitChars[i] = c) - 1

IsSpace(c) == c = " "

IsSep(c) == c = "," \/ IsSpace(c)

RECURSIVE TrimLeft(_)
TrimLeft(s) == IF s # <<>> /\ IsSpace(Head(s)) THEN TrimLeft(Tail(s)) ELSE s

RECURSIVE TrimRight(_)
TrimRight(s) ==
  IF s # <<>> /\ IsSpace(s[Len(s)]) THEN TrimRight(SubSeq(s, 1, Len(s) - 1)) ELSE s

\* String.prototype.trim
Trim(s) == TrimRight(TrimLeft(s))

\* first index >= i of s that does not satisfy the class (Len(s)+1 if none)
RECURSIVE DigitRunEnd(_, _)
DigitRunEnd(s, i) == IF i <= Len(s) /\ IsDigit(s[i]) THEN DigitRunEnd(s, i + 1) ELSE i

RECURSIVE SepRunEnd(_, _)
SepRunEnd(s, i) == IF i <= Len(s) /\ IsSep(s[i]) THEN SepRunEnd(s, i + 1) ELSE i

RECURSIVE SpaceRunEnd(_, _)
SpaceRunEnd(s, i) == IF i <= Len(s) /\ IsSpace(s[i]) THEN SpaceRunEnd(s, i + 1) ELSE i

\* value of the digits s[i..j-1]
RECURSIVE DigitsValue(_, _, _)
DigitsValue(s, i, j) ==
  IF i >= j THEN 0 ELSE DigitsValue(s, i, j - 1) * 10 + DigitVal(s[j - 1])

\* the fraction digits s[i..j-1] in thousandths (inputs carry at most 3)
FractionValue(s, i, j) ==
  LET d(k) == IF i + k < j THEN DigitVal(s[i + k]) ELSE 0
  IN d(0) * 100 + d(1) * 10 + d(2)

\* One number of the pattern at position i: -?\d{1,maxInt}(?:\.\d+)?
\* ok, the position after it, and the parseFloat value of the capture.
MatchNumber(s, i, maxInt) ==
  LET neg == i <= Len(s) /\ s[i] = "-"
      i1 == IF neg THEN i + 1 ELSE i
      i2 == DigitRunEnd(s, i1)
      hasFrac == /\ i2 + 1 <= Len(s)
                 /\ s[i2] = "."
                 /\ IsDigit(s[i2 + 1])
      i3 == IF hasFrac THEN DigitRunEnd(s, i2 + 1) ELSE i2
      mag == DigitsValue(s, i1, i2) * Scale
               + (IF hasFrac THEN FractionValue(s, i2 + 1, i3) ELSE 0)
  IN [ok |-> i2 - i1 >= 1 /\ i2 - i1 <= maxInt,
      next |-> i3,
      val |-> IF neg THEN 0 - mag ELSE mag]

\* q.trim().match(/^\s*(-?\d{1,2}(?:\.\d+)?)[,\s]+(-?\d{1,3}(?:\.\d+)?)\s*$/)
\* NULL when there is no match, else the two captures as numbers.
MatchLatLon(q) ==
  LET s == Trim(q)
      i0 == SpaceRunEnd(s, 1)
      a == MatchNumber(s, i0, 2)
      j == SepRunEnd(s, a.next)
      b == MatchNumber(s, j, 3)
      e == SpaceRunEnd(s, b.next)
  IN IF a.ok /\ j > a.next /\ b.ok /\ e = Len(s) + 1
       THEN [lat |-> a.val, lon |-> b.val]
       ELSE NULL

Abs(x) == IF x < 0 THEN 0 - x ELSE x

isLatLonInput(q) == MatchLatLon(q) # NULL

parseLatLon(q) ==
  LET m == MatchLatLon(q)
  IN IF m = NULL THEN NULL
     ELSE IF Abs(m.lat) > LatLimit * Scale \/ Abs(m.lon) > LonLimit * Scale THEN NULL
     ELSE m

\* decimal digits of a natural number
RECURSIVE NatChars(_)
NatChars(n) ==
  IF n < 10 THEN <<DigitChars[n + 1]>> ELSE NatChars(n \div 10) \o <<DigitChars[(n % 10) + 1]>>

\* Number.prototype.toFixed(3) of a value in thousandths
toFixed3(v) ==
  LET m == Abs(v)
      f == m % Scale
  IN (IF v < 0 THEN <<"-">> ELSE <<>>)
       \o NatChars(m \div Scale) \o <<".">>
       \o <<DigitChars[(f \div 100) + 1], DigitChars[((f \div 10) % 10) + 1],
            DigitChars[(f % 10) + 1]>>

\* `(${lat.toFixed(3)}, ${lon.toFixed(3)})`
CoordLabel(lat, lon) ==
  <<"(">> \o toFixed3(lat) \o <<",", " ">> \o toFixed3(lon) \o <<")">>

\* variant: the label is built with the two coordinates exchanged
SyntheticPlace_swapped(lat, lon) ==
  [id |-> 0, name |-> CoordLabel(lon, lat), latitude |-> lat, longitude |-> lon,
   country |-> AbsentText, admin1 |-> AbsentText]

\* the place resolveAndFetch builds when it is given no chosenPlace
SyntheticPlace(lat, lon) ==
  [id |-> 0, name |-> CoordLabel(lat, lon), latitude |-> lat, longitude |-> lon,
   country |-> AbsentText, admin1 |-> AbsentText]

\* [g.name, g.admin1, g.country].filter(Boolean).join(", ")
formatPlace(g) ==
  LET keep(x) == x # AbsentText /\ x # <<>>
      parts == SelectSeq(<<g.name, g.admin1, g.country>>, keep)
      join[i \in 0..3] ==
        IF i = 0 THEN <<>>
        ELSE IF i = 1 THEN parts[1]
        ELSE join[i - 1] \o <<",", " ">> \o parts[i]
  IN join[Len(parts)]

\* ------------------------------------------------------------ environment
\* what the user may type into the input
Texts ==
  { <<>>,
    <<" ">>,
    <<"P", "a">>,
    <<"2", "7", ".", "9", "5", ",", " ", "-", "8", "2", ".", "4", "6">>,
    <<"9", "5", ",", " ", "2", "0">> }

\* the k-th place of the geocoding service's catalogue
GeoPlace(k) ==
  [id |-> k, name |-> <<"P", DigitChars[k + 1]>>,
   latitude |-> k * Scale + 500, longitude |-> 0 - k * Scale,
   country |-> IF k % 2 = 1 THEN <<"F", "R">> ELSE AbsentText,
   admin1 |-> AbsentText]

ResultLens == {0, 1, MaxResults}

Results(start, n) == [i \in 1..n |-> GeoPlace(start + i - 1)]

\* A response of the geocoding service: the transport may fail (fetch
\* rejects), the status may be a failure (an error body, JSON or not), the
\* body may not be JSON (res.json() rejects), the JSON may lack `results`,
\* or carry a results array of any length.
GeoResponses ==
  { [transport |-> FALSE, ok |-> FALSE, json |-> FALSE, hasResults |-> FALSE, results |-> <<>>],
    [transport |-> TRUE, ok |-> TRUE, json |-> FALSE, hasResults |-> FALSE, results |-> <<>>],
    [transport |-> TRUE, ok |-> TRUE, json |-> TRUE, hasResults |-> FALSE, results |-> <<>>],
    [transport |-> TRUE, ok |-> FALSE, json |-> FALSE, hasResults |-> FALSE, results |-> <<>>],
    [transport |-> TRUE, ok |-> FALSE, json |-> TRUE, hasResults |-> FALSE, results |-> <<>>] }
  \cup { [transport |-> TRUE, ok |-> TRUE, json |-> TRUE, hasResults |-> TRUE,
          results |-> Results(1, n)] : n \in ResultLens }

CurrentSample ==
  [temperature_2m |-> 21500, apparent_temperature |-> 20000, precipitation |-> 0,
   weather_code |-> 3, wind_speed_10m |-> 4200, relative_humidity_2m |-> 55000]

\* a daily payload of n days; the wind-max series is optional
Daily(n, wind) ==
  LET base == [time |-> [i \in 1..n |-> <<"d", DigitChars[i + 1]>>],
               weather_code |-> [i \in 1..n |-> i],
               temperature_2m_max |-> [i \in 1..n |-> (20 + i) * Scale],
               temperature_2m_min |-> [i \in 1..n |-> (10 + i) * Scale],
               precipitation_probability_max |-> [i \in 1..n |-> 10 * i]]
  IN IF wind THEN [f \in DOMAIN base \cup {"wind_speed_10m_max"} |->
                     IF f = "wind_speed_10m_max" THEN [i \in 1..n |-> i * Scale]
                     ELSE base[f]]
     ELSE base

DailyPayloads == {Daily(7, TRUE)}

\* A response of the forecast service to a request for (lat, lon).
ForecastResponses(lat, lon) ==
  { [transport |-> FALSE, ok |-> FALSE, json |-> FALSE,
     latitude |-> lat, longitude |-> lon, current |-> Absent, daily |-> Absent],
    [transport |-> TRUE, ok |-> FALSE, json |-> TRUE,
     latitude |-> lat, longitude |-> lon, current |-> Absent, daily |-> Absent],
    [transport |-> TRUE, ok |-> TRUE, json |-> FALSE,
     latitude |-> lat, longitude |-> lon, current |-> Absent, daily |-> Absent] }
  \cup { [transport |-> TRUE, ok |-> TRUE, json |-> TRUE,
          latitude |-> lat, longitude |-> lon, current |-> c, daily |-> d] :
           c \in {Absent, CurrentSample}, d \in {Absent} \cup DailyPayloads }

\* positions the geolocation capability may report
Fixes == { [latitude |-> 51500, longitude |-> 0 - 120] }

\* messages of a GeolocationPositionError (may be empty)
GeoErrorMessages == { "", "Timeout expired" }

FetchRejectMsg == "Failed to fetch"                 \* TypeError of a rejected fetch
JsonRejectMsg == "Unexpected token in JSON"         \* SyntaxError of res.json()
NotFoundMsg == "No matching locations found"
WeatherStatusMsg == "Failed to fetch weather"
UnsupportedMsg == "Geolocation not supported in this browser"
PositionFallbackMsg == "Failed to get your location"

\* ------------------------------------------------------------------ state
VARIABLES
  query,          \* useState("") : the input text
  units,          \* useState<"metric" | "imperial">("metric")
  loading,        \* useState(false)
  error,          \* useState<string | null>(null)
  place,          \* useState<GeoResult | null>(null)
  weather,        \* useState<WeatherResponse | null>(null)
  suggestions,    \* useState<GeoResult[]>([])
  timer,          \* the pending setTimeout of the debounce effect, or NULL
  attempts,       \* resolution attempts suspended at an await / callback
  suggestReqs,    \* suggest requests in flight
  geoSupported,   \* "geolocation" in navigator
  nAttempts,      \* attempts started so far (the newest attempt's id)
  nSuggest,       \* suggest requests issued so far
  nEvents,        \* user intents handled so far
  suggestOutcome  \* history: how the suggest request answered last ended

vars == <<query, units, loading, error, place, weather, suggestions, timer, attempts,
          suggestReqs, geoSupported, nAttempts, nSuggest, nEvents, suggestOutcome>>

Init ==
  /\ query = <<>>
  /\ units = "metric"
  /\ loading = FALSE
  /\ error = NoError
  /\ place = NULL
  /\ weather = NULL
  /\ suggestions = <<>>
  /\ timer = [text |-> <<>>]
  /\ attempts = {}
  /\ suggestReqs = {}
  /\ geoSupported \in BOOLEAN
  /\ nAttempts = 0
  /\ nSuggest = 0
  /\ nEvents = 0
  /\ suggestOutcome = "none"

\* ---------------------------------------------------------------- helpers
Attempt(id, kind, pc, text, name, lat, lon, chosen) ==
  [id |-> id, kind |-> kind, pc |-> pc, text |-> text, name |-> name,
   lat |-> lat, lon |-> lon, chosen |-> chosen]

\* r => ({ id: r.id, name: r.name, ... }) : the fields the component copies
CopyPlace(r) ==
  [id |-> r.id, name |-> r.name, latitude |-> r.latitude, longitude |-> r.longitude,
   country |-> r.country, admin1 |-> r.admin1]

\* resolveAndFetch up to `await fetch(url)`: the three setters, then the
\* forecast request for (lat, lon) is in flight on behalf of attempt id.
resolveAndFetchBegin(old, id, kind, text, lat, lon, chosen) ==
  /\ loading' = TRUE
  /\ error' = NoError
  /\ weather' = NULL
  /\ attempts' = (attempts \ old)
                   \cup {Attempt(id, kind, "forecast", text, <<>>, lat, lon, chosen)}
  /\ UNCHANGED place

\* ------------------------------------------------------- autosuggest flow
\* variant: the effect has no cleanup, a pending call is not cancelled
EditQuery_noCancel(t) ==
  /\ nEvents < MaxEvents
  /\ t # query
  /\ query' = t
  /\ timer' = IF timer # NULL THEN timer ELSE [text |-> t]
  /\ nEvents' = nEvents + 1
  /\ UNCHANGED <<units, loading, error, place, weather, suggestions, attempts, suggestReqs,
                 geoSupported, nAttempts, nSuggest, suggestOutcome>>

\* onChange={(e) => setQuery(e.target.value)}, then the debounce effect:
\* the cleanup clears the pending timer and a new one is set for the new text
EditQuery(t) ==
  /\ nEvents < MaxEvents
  /\ t # query
  /\ query' = t
  /\ timer' = [text |-> t]
  /\ nEvents' = nEvents + 1
  /\ UNCHANGED <<units, loading, error, place, weather, suggestions, attempts, suggestReqs,
                 geoSupported, nAttempts, nSuggest, suggestOutcome>>

\* the guard of fetchSuggestions: the list is cleared and nothing is requested
SuggestSuppressed(text) == text = <<>> \/ isLatLonInput(text)

\* the timer fires: fetchSuggestions(text) up to `await fetch(...)`
DebounceFire ==
  /\ timer # NULL
  /\ IF SuggestSuppressed(timer.text)
       THEN /\ suggestions' = <<>>
            /\ UNCHANGED <<suggestReqs, nSuggest>>
       ELSE /\ nSuggest' = nSuggest + 1
            /\ suggestReqs' = suggestReqs
                 \cup {[id |-> nSuggest + 1, name |-> timer.text, count |-> SuggestCount]}
            /\ UNCHANGED suggestions
  /\ timer' = NULL
  /\ UNCHANGED <<units, query, loading, error, place, weather, attempts, geoSupported,
                 nAttempts, nEvents, suggestOutcome>>

\* (data?.results || []).map(...) : every entry of the array is kept
SuggestionsOf(resp) ==
  IF resp.hasResults THEN [i \in 1..Len(resp.results) |-> CopyPlace(resp.results[i])]
  ELSE <<>>

\* the suggest request r is answered with JSON: setSuggestions(...)
SuggestSuccess(r, resp) ==
  /\ r \in suggestReqs
  /\ resp.transport /\ resp.json
  /\ suggestions' = SuggestionsOf(resp)
  /\ suggestReqs' = suggestReqs \ {r}
  /\ suggestOutcome' = IF SuggestionsOf(resp) = <<>> THEN "empty" ELSE "results"
  /\ UNCHANGED <<units, query, loading, error, place, weather, timer, attempts, geoSupported,
                 nAttempts, nSuggest, nEvents>>

\* variant: the catch block reports the failure with setError
SuggestFailure_surfaced(r, resp) ==
  /\ r \in suggestReqs
  /\ ~(resp.transport /\ resp.json)
  /\ suggestReqs' = suggestReqs \ {r}
  /\ suggestOutcome' = IF resp.transport THEN "malformed" ELSE "network"
  /\ error' = IF resp.transport THEN JsonRejectMsg ELSE FetchRejectMsg
  /\ UNCHANGED <<units, query, loading, place, weather, suggestions, timer, attempts,
                 geoSupported, nAttempts, nSuggest, nEvents>>

\* fetch or res.json() rejects: `catch (e) { /* ignore */ }`
SuggestFailure(r, resp) ==
  /\ r \in suggestReqs
  /\ ~(resp.transport /\ resp.json)
  /\ suggestReqs' = suggestReqs \ {r}
  /\ suggestOutcome' = IF resp.transport THEN "malformed" ELSE "network"
  /\ UNCHANGED <<units, query, loading, error, place, weather, suggestions, timer, attempts,
                 geoSupported, nAttempts, nSuggest, nEvents>>

\* -------------------------------------------------------- resolution flow
\* handleSubmit up to its first await
handleSubmit(ll) ==
  /\ nEvents < MaxEvents
  /\ nEvents' = nEvents + 1
  /\ nAttempts' = nAttempts + 1
  /\ LET id == nAttempts + 1
     IN IF ll # NULL
          THEN /\ resolveAndFetchBegin({}, id, "submit", query, ll.lat, ll.lon, NULL)
          ELSE /\ error' = NoError
               /\ loading' = TRUE
               /\ attempts' = attempts
                    \cup {Attempt(id, "submit", "geocode", query, Trim(query), 0, 0, NULL)}
               /\ UNCHANGED <<weather, place>>
  /\ UNCHANGED <<units, query, suggestions, timer, suggestReqs, geoSupported, nSuggest, suggestOutcome>>

\* the form's onSubmit: handleSubmit on `const ll = parseLatLon(query)`
Submit == \E ll \in {parseLatLon(query)} : handleSubmit(ll)

\* variant: without `if (!first) throw ...` the read of first.id throws
GeocodeError_noGuard(resp) ==
  IF ~resp.transport THEN FetchRejectMsg
  ELSE IF ~resp.json THEN JsonRejectMsg
  ELSE IF ~resp.hasResults \/ resp.results = <<>> THEN "Cannot read properties of undefined"
  ELSE ""

\* what handleSubmit throws or catches for a geocoding response, "" if nothing
GeocodeError(resp) ==
  IF ~resp.transport THEN FetchRejectMsg
  ELSE IF ~resp.json THEN JsonRejectMsg
  ELSE IF ~resp.hasResults \/ resp.results = <<>> THEN NotFoundMsg
  ELSE ""

\* handleSubmit resumes with the geocoding response
GeocodeResponse(a, resp) ==
  /\ a \in attempts
  /\ a.pc = "geocode"
  /\ IF GeocodeError(resp) # ""
       THEN /\ error' = GeocodeError(resp)
            /\ loading' = FALSE
            /\ attempts' = attempts \ {a}
            /\ UNCHANGED <<weather, place>>
       ELSE LET chosen == CopyPlace(resp.results[1])
            IN /\ resolveAndFetchBegin({a}, a.id, a.kind, a.text,
                                       chosen.latitude, chosen.longitude, chosen)
  /\ UNCHANGED <<units, query, suggestions, timer, suggestReqs, geoSupported, nAttempts,
                 nSuggest, nEvents, suggestOutcome>>

\* what resolveAndFetch catches for a forecast response, "" if nothing
ForecastError(resp) ==
  IF ~resp.transport THEN FetchRejectMsg
  ELSE IF ~resp.ok THEN WeatherStatusMsg
  ELSE IF ~resp.json THEN JsonRejectMsg
  ELSE ""

\* the object handed to setWeather
WeatherOf(resp) ==
  [latitude |-> resp.latitude, longitude |-> resp.longitude, timezone |-> "auto",
   current |-> resp.current, daily |-> resp.daily]

\* the place handed to setPlace
PlaceOf(a) == IF a.chosen # NULL THEN a.chosen ELSE SyntheticPlace(a.lat, a.lon)

\* variant: setLoading(false) at the end of the try block, not in a finally
ForecastResponse_noFinally(a, resp) ==
  /\ a \in attempts
  /\ a.pc = "forecast"
  /\ IF ForecastError(resp) # ""
       THEN /\ error' = ForecastError(resp)
            /\ UNCHANGED <<weather, place, loading>>
       ELSE /\ weather' = WeatherOf(resp)
            /\ place' = PlaceOf(a)
            /\ loading' = FALSE
            /\ UNCHANGED error
  /\ attempts' = attempts \ {a}
  /\ UNCHANGED <<units, query, suggestions, timer, suggestReqs, geoSupported, nAttempts,
                 nSuggest, nEvents, suggestOutcome>>

\* resolveAndFetch resumes with the forecast response; its finally, and the
\* finally of an awaiting handleSubmit, set loading to false
ForecastResponse(a, resp) ==
  /\ a \in attempts
  /\ a.pc = "forecast"
  /\ IF ForecastError(resp) # ""
       THEN /\ error' = ForecastError(resp)
            /\ UNCHANGED <<weather, place>>
       ELSE /\ weather' = WeatherOf(resp)
            /\ place' = PlaceOf(a)
            /\ UNCHANGED error
  /\ loading' = FALSE
  /\ attempts' = attempts \ {a}
  /\ UNCHANGED <<units, query, suggestions, timer, suggestReqs, geoSupported, nAttempts,
                 nSuggest, nEvents, suggestOutcome>>

\* onClick of the i-th suggestion button
PickSuggestion(i) ==
  /\ nEvents < MaxEvents
  /\ nEvents' = nEvents + 1
  /\ i \in 1..Len(suggestions)
  /\ LET s == suggestions[i]
         id == nAttempts + 1
     IN /\ query' = formatPlace(s)
        /\ timer' = IF formatPlace(s) # query THEN [text |-> formatPlace(s)] ELSE timer
        /\ resolveAndFetchBegin({}, id, "pick", <<>>, s.latitude, s.longitude, s)
  /\ suggestions' = <<>>
  /\ nAttempts' = nAttempts + 1
  /\ UNCHANGED <<units, suggestReqs, geoSupported, nSuggest, suggestOutcome>>

\* onClick of "Use My Location"
UseMyLocation ==
  /\ nEvents < MaxEvents
  /\ nEvents' = nEvents + 1
  /\ nAttempts' = nAttempts + 1
  /\ IF ~geoSupported
       THEN /\ error' = UnsupportedMsg
            /\ UNCHANGED <<loading, attempts>>
       ELSE /\ error' = NoError
            /\ loading' = TRUE
            /\ attempts' = attempts
                 \cup {Attempt(nAttempts + 1, "locate", "position", <<>>, <<>>, 0, 0, NULL)}
  /\ UNCHANGED <<units, query, place, weather, suggestions, timer, suggestReqs, geoSupported,
                 nSuggest, suggestOutcome>>

\* the success callback of getCurrentPosition
PositionSuccess(a, fix) ==
  /\ a \in attempts
  /\ a.pc = "position"
  /\ resolveAndFetchBegin({a}, a.id, a.kind, a.text, fix.latitude, fix.longitude, NULL)
  /\ UNCHANGED <<units, query, suggestions, timer, suggestReqs, geoSupported, nAttempts,
                 nSuggest, nEvents, suggestOutcome>>

\* the error callback of getCurrentPosition (denied, unavailable, timeout)
PositionError(a, msg) ==
  /\ a \in attempts
  /\ a.pc = "position"
  /\ loading' = FALSE
  /\ error' = IF msg # "" THEN msg ELSE PositionFallbackMsg
  /\ attempts' = attempts \ {a}
  /\ UNCHANGED <<units, query, place, weather, suggestions, timer, suggestReqs, geoSupported,
                 nAttempts, nSuggest, nEvents, suggestOutcome>>

\* onClick of the Metric / Imperial buttons
SetUnits(u) ==
  /\ nEvents < MaxEvents
  /\ u # units
  /\ units' = u
  /\ nEvents' = nEvents + 1
  /\ UNCHANGED <<query, loading, error, place, weather, suggestions, timer, attempts,
                 suggestReqs, geoSupported, nAttempts, nSuggest, suggestOutcome>>

Next ==
  \/ \E t \in Texts : EditQuery(t)
  \/ DebounceFire
  \/ \E r \in suggestReqs, resp \in GeoResponses : SuggestSuccess(r, resp)
  \/ \E r \in suggestReqs, resp \in GeoResponses : SuggestFailure(r, resp)
  \/ Submit
  \/ \E a \in attempts, resp \in GeoResponses : GeocodeResponse(a, resp)
  \/ \E a \in attempts : \E resp \in ForecastResponses(a.lat, a.lon) : ForecastResponse(a, resp)
  \/ \E i \in 1..MaxPick : PickSuggestion(i)
  \/ UseMyLocation
  \/ \E a \in attempts, fix \in Fixes : PositionSuccess(a, fix)
  \/ \E a \in attempts, msg \in GeoErrorMessages : PositionError(a, msg)
  \/ \E u \in {"metric", "imperial"} : SetUnits(u)

Spec == Init /\ [][Next]_vars

\* a request or callback of the resolution flow completes
GeocodeCompletes == \E a \in attempts, resp \in GeoResponses : GeocodeResponse(a, resp)

ForecastCompletes ==
  \E a \in attempts : \E resp \in ForecastResponses(a.lat, a.lon) : ForecastResponse(a, resp)

PositionCompletes ==
  \/ \E a \in attempts, fix \in Fixes : PositionSuccess(a, fix)
  \/ \E a \in attempts, msg \in GeoErrorMessages : PositionError(a, msg)

\* every issued network request and every geolocation request is answered
LiveSpec ==
  /\ Init
  /\ [][Next]_vars
  /\ WF_vars(GeocodeCompletes)
  /\ WF_vars(ForecastCompletes)
  /\ WF_vars(PositionCompletes)

\* ------------------------------------------------------- forecast shaping
FiveDays == 5

Min(a, b) == IF a < b THEN a ELSE b

\* variant: a missing element is read as the number 0
Elem_zero(d, f, i) ==
  IF f \in DOMAIN d /\ i \in DOMAIN d[f] THEN [val |-> d[f][i]] ELSE [val |-> 0]

\* arr?.[i] for the 1-based position i of the series f of the daily payload:
\* the element when the series exists and has that index, else undefined
Elem(d, f, i) ==
  IF f \in DOMAIN d /\ i \in DOMAIN d[f] THEN [val |-> d[f][i]] ELSE Absent

\* variant: the mapped list is returned whole
fiveDay_noSlice(w) ==
  IF w = NULL \/ w.daily = Absent THEN <<>>
  ELSE LET d == w.daily
       IN [i \in 1..Len(d.time) |->
             [date |-> d.time[i],
              code |-> Elem(d, "weather_code", i),
              tmax |-> Elem(d, "temperature_2m_max", i),
              tmin |-> Elem(d, "temperature_2m_min", i),
              ppop |-> Elem(d, "precipitation_probability_max", i),
              wmax |-> Elem(d, "wind_speed_10m_max", i)]]

\* the fiveDay memo: one entry per element of daily.time, first five kept
fiveDay(w) ==
  IF w = NULL \/ w.daily = Absent THEN <<>>
  ELSE LET d == w.daily
           out == [i \in 1..Len(d.time) |->
                     [date |-> d.time[i],
                      code |-> Elem(d, "weather_code", i),
                      tmax |-> Elem(d, "temperature_2m_max", i),
                      tmin |-> Elem(d, "temperature_2m_min", i),
                      ppop |-> Elem(d, "precipitation_probability_max", i),
                      wmax |-> Elem(d, "wind_speed_10m_max", i)]]
       IN SubSeq(out, 1, Min(FiveDays, Len(out)))

\* A daily payload of n days whose dates are not in ascending order, whose
\* two temperature series have k elements and whose wind-max series is
\* optional.
ShapeDaily(n, k, wind) ==
  LET base == [time |-> [i \in 1..n |-> <<"d", DigitChars[n - i + 1]>>],
               weather_code |-> [i \in 1..n |-> i],
               temperature_2m_max |-> [i \in 1..k |-> (20 + i) * Scale],
               temperature_2m_min |-> [i \in 1..k |-> (i - 3) * Scale],
               precipitation_probability_max |-> [i \in 1..n |-> 10 * i]]
  IN IF wind THEN [f \in DOMAIN base \cup {"wind_speed_10m_max"} |->
                     IF f = "wind_speed_10m_max" THEN [i \in 1..n |-> i * Scale]
                     ELSE base[f]]
     ELSE base

ShapePayloads == { ShapeDaily(n, k, wind) : n \in 0..MaxDays, k \in 0..MaxDays, wind \in BOOLEAN }

\* successful and failed answers of the forecast service over ShapePayloads
ShapeResponses(lat, lon) ==
  { [transport |-> TRUE, ok |-> FALSE, json |-> TRUE,
     latitude |-> lat, longitude |-> lon, current |-> Absent, daily |-> Absent] }
  \cup { [transport |-> TRUE, ok |-> TRUE, json |-> TRUE,
          latitude |-> lat, longitude |-> lon, current |-> CurrentSample, daily |-> d] :
           d \in ShapePayloads }

\* the state after a coordinate pair was typed and submitted: its forecast
\* request is in flight and the debounce timer for the text is pending
ShapeInit ==
  /\ query \in {t \in Texts : parseLatLon(t) # NULL}
  /\ units = "metric"
  /\ loading = TRUE
  /\ error = NoError
  /\ place = NULL
  /\ weather = NULL
  /\ suggestions = <<>>
  /\ timer = [text |-> query]
  /\ attempts = {Attempt(1, "submit", "forecast", query, <<>>,
                         parseLatLon(query).lat, parseLatLon(query).lon, NULL)}
  /\ suggestReqs = {}
  /\ geoSupported \in BOOLEAN
  /\ nAttempts = 1
  /\ nSuggest = 0
  /\ nEvents = 2
  /\ suggestOutcome = "none"

ShapeNext ==
  \/ \E a \in attempts : \E resp \in ShapeResponses(a.lat, a.lon) : ForecastResponse(a, resp)
  \/ \E u \in {"metric", "imperial"} : SetUnits(u)

ShapeSpec == ShapeInit /\ [][ShapeNext]_vars

\* ------------------------------------------------------ forecast card text
\* the number NaN; any other number n is [val |-> n], n in thousandths
NaN == [nan |-> TRUE]

tempUnit == IF units = "metric" THEN <<"°", "C">> ELSE <<"°", "F">>

speedUnit == IF units = "metric" THEN <<"m", "/", "s">> ELSE <<"m", "p", "h">>

\* units === "imperial" ? c * 9/5 + 32 : c   (arithmetic on NaN gives NaN)
convertTemp(c) ==
  IF c = NaN THEN NaN
  ELSE IF units = "imperial" THEN [val |-> (c.val * 9) \div 5 + 32 * Scale]
  ELSE c

\* units === "imperial" ? ms * 2.236936 : ms   (2 + 0.236936, in 32 bits)
convertSpeed(ms) ==
  IF ms = NaN THEN NaN
  ELSE IF units = "imperial" THEN [val |-> ms.val * 2 + (ms.val * 236936) \div 1000000]
  ELSE ms

\* Number.prototype.toFixed(0): "NaN" for NaN, else the rounded integer
toFixed0(x) ==
  IF x = NaN THEN <<"N", "a", "N">>
  ELSE (IF x.val < 0 THEN <<"-">> ELSE <<>>) \o NatChars((Abs(x.val) + 500) \div Scale)

\* Number.prototype.toFixed(1)
toFixed1(x) ==
  IF x = NaN THEN <<"N", "a", "N">>
  ELSE LET t == (Abs(x.val) + 50) \div 100
       IN (IF x.val < 0 THEN <<"-">> ELSE <<>>)
            \o NatChars(t \div 10) \o <<".", DigitChars[(t % 10) + 1]>>

\* {convertTemp(v ?? NaN).toFixed(0)}{tempUnit} for v = d.tmax or d.tmin
TempText(v) == toFixed0(convertTemp(IF v = Absent THEN NaN ELSE v)) \o tempUnit

\* the card's wind line, rendered only when typeof d.wmax === "number"
WindText(v) ==
  IF v = Absent THEN <<>>
  ELSE <<"W", "i", "n", "d", " ", "m", "a", "x", ":", " ">>
         \o toFixed1(convertSpeed(v)) \o <<" ">> \o speedUnit

\* ----------------------------------------------------------------- claims
ScenarioText == <<"2", "7", ".", "9", "5", ",", " ", "-", "8", "2", ".", "4", "6">>

ScenarioLabel ==
  <<"(", "2", "7", ".", "9", "5", "0", ",", " ", "-", "8", "2", ".", "4", "6", "0", ")">>

ScenarioCoords == [lat |-> 27950, lon |-> 0 - 82460]

\* C1 (as claimed): a response handled for an attempt that is no longer the
\* most recently initiated one changes neither weather nor place nor error.
C1_LastRequestWins ==
  [][\A a \in attempts :
       (a.id < nAttempts /\ a \notin attempts') => UNCHANGED <<weather, place, error>>]_vars

\* C2 (as claimed): a non-null weather carries current conditions and daily
\* data, and the stored place is non-null and belongs to the same attempt
\* (the forecast answers with the coordinates it was asked for).
C2_ViewFullyPopulated ==
  weather # NULL =>
    /\ weather.current # Absent
    /\ weather.daily # Absent
    /\ place # NULL
    /\ place.latitude = weather.latitude
    /\ place.longitude = weather.longitude

\* an empty or absent results list in a well-formed geocoding answer
NoMatch(resp) == resp.transport /\ resp.json /\ (~resp.hasResults \/ resp.results = <<>>)

\* C3: a submit of free text leaves weather and place as they are, and when
\* its geocoding answer has no results the attempt ends with the not-found
\* message, loading false, weather and place untouched, no forecast request.
C3_NotFoundKeepsView ==
  [][/\ (nAttempts' # nAttempts /\ Submit /\ parseLatLon(query) = NULL) =>
          UNCHANGED <<weather, place>>
     /\ \A a \in attempts : \A resp \in GeoResponses :
          (a \notin attempts' /\ a.kind = "submit" /\ NoMatch(resp) /\ GeocodeResponse(a, resp)) =>
            /\ error' = NotFoundMsg
            /\ loading' = FALSE
            /\ UNCHANGED <<weather, place>>
            /\ attempts' = attempts \ {a}]_vars

\* C3 witness: a not-found submit has ended while an earlier view is shown
C3_Witness ==
  /\ error = NotFoundMsg
  /\ ~loading
  /\ attempts = {}
  /\ weather # NULL
  /\ place # NULL

GeolocationFails ==
  \/ UseMyLocation /\ ~geoSupported
  \/ \E a \in attempts : \E msg \in GeoErrorMessages : PositionError(a, msg)

\* C4 (as claimed): when geolocation fails the step ends with an error
\* message, loading false, and no request issued.
C4_GeolocationFailure ==
  [][GeolocationFails =>
       /\ error' # NoError
       /\ loading' = FALSE
       /\ attempts' \subseteq attempts
       /\ suggestReqs' = suggestReqs]_vars

IsCoordinateSubmit(a) == a.kind = "submit" /\ parseLatLon(a.text) # NULL

\* C5: a submit of a coordinate pair issues exactly one request, a forecast
\* request with the entered coordinates and no geocoding request, and its
\* success commits the synthetic place (id 0, the entered coordinates, the
\* label "(lat, lon)" with three decimals).
C5_CoordinateSubmit ==
  [][/\ (nAttempts' # nAttempts /\ Submit /\ parseLatLon(query) # NULL) =>
          \E n \in attempts' :
            /\ n \notin attempts
            /\ attempts' = attempts \cup {n}
            /\ n.pc = "forecast"
            /\ [lat |-> n.lat, lon |-> n.lon] = parseLatLon(query)
            /\ (query = ScenarioText => [lat |-> n.lat, lon |-> n.lon] = ScenarioCoords)
     /\ \A a \in attempts :
          (a.pc = "geocode" /\ a.kind = "submit") => parseLatLon(a.text) = NULL
     /\ \A a \in attempts :
          (a \notin attempts' /\ a.pc = "forecast" /\ IsCoordinateSubmit(a)) =>
            \A resp \in ForecastResponses(a.lat, a.lon) :
              (ForecastError(resp) = "" /\ ForecastResponse(a, resp)) =>
                /\ place' # NULL
                /\ place'.id = 0
                /\ place'.latitude = parseLatLon(a.text).lat
                /\ place'.longitude = parseLatLon(a.text).lon
                /\ place'.name = CoordLabel(parseLatLon(a.text).lat, parseLatLon(a.text).lon)
                /\ (a.text = ScenarioText => place'.name = ScenarioLabel)
                /\ attempts' = attempts \ {a}]_vars

\* C5 witness: the scenario's coordinate submit has succeeded
C5_Witness ==
  /\ weather # NULL
  /\ place # NULL
  /\ place.id = 0
  /\ place.name = ScenarioLabel
  /\ weather.latitude = ScenarioCoords.lat

\* C6 (as claimed): for a non-blank text, the autosuggest path suppresses
\* the request and clears the list exactly when submit treats the text as a
\* coordinate pair.
C6_SameClassification ==
  [][(DebounceFire /\ Trim(timer.text) # <<>>) =>
       ((suggestReqs' = suggestReqs /\ suggestions' = <<>>) <=> parseLatLon(timer.text) # NULL)]_vars

\* C7 (as claimed): no request of either path is in flight for a query that
\* is empty or only whitespace.
C7_NoRequestForBlank ==
  /\ \A a \in attempts : a.kind = "submit" => Trim(a.text) # <<>>
  /\ \A r \in suggestReqs : Trim(r.name) # <<>>

AutosuggestStep ==
  \/ DebounceFire
  \/ \E r \in suggestReqs : \E resp \in GeoResponses :
       SuggestSuccess(r, resp) \/ SuggestFailure(r, resp)

\* C8: no step of the autosuggest flow changes error, loading, weather or
\* place.
C8_AutosuggestFrame ==
  [][UNCHANGED <<error, loading, weather, place>> \/ ~AutosuggestStep]_vars

\* C8 witness: a suggest request has failed while an error and a view were
\* on display and a resolution was loading
C8_Witness ==
  /\ suggestOutcome \in {"network", "malformed"}
  /\ error # NoError
  /\ weather # NULL

\* C9 (as claimed): once the debounce has fired for an empty or coordinate
\* query (no timer pending since the last edit) the list is empty.
C9_ClearedStaysCleared ==
  (timer = NULL /\ (query = <<>> \/ parseLatLon(query) # NULL)) => suggestions = <<>>

\* C10 (as claimed): the suggestion list never holds more than 5 places.
C10_AtMostFive == Len(suggestions) <= SuggestCount

\* C11: the one pending debounce call is always the one scheduled for the
\* current query (an edit replaces the pending call), and a suggest request
\* is only issued for the query value that is current when the timer fires.
C11_Debounce ==
  [][/\ (timer' # NULL => timer'.text = query')
     /\ (nSuggest' # nSuggest =>
           \E r \in suggestReqs' :
             /\ r \notin suggestReqs
             /\ r.id = nSuggest'
             /\ r.name = query
             /\ suggestReqs' = suggestReqs \cup {r})]_vars

\* C11 witness: two edits in a row, then the timer fired once: the only
\* request is the one for the second text
C11_Witness ==
  /\ nEvents = 2
  /\ nAttempts = 0
  /\ units = "metric"
  /\ nSuggest = 1
  /\ timer = NULL
  /\ \E r \in suggestReqs : r.name = query

C13_NonSuccessIsNetworkError ==
  [][/\ \A a \in attempts :
          a \notin attempts' /\ a.pc = "geocode" /\ Trim(a.text) # <<>> =>
            \A resp \in GeoResponses :
              resp.transport /\ ~resp.ok /\ GeocodeResponse(a, resp) =>
                /\ error' \notin {NoError, NotFoundMsg}
                /\ attempts' = attempts \ {a}
     /\ \A a \in attempts :
          a \notin attempts' /\ a.pc = "forecast" =>
            \A resp \in ForecastResponses(a.lat, a.lon) :
              resp.transport /\ ~resp.ok /\ ForecastResponse(a, resp) =>
                /\ error' = WeatherStatusMsg
                /\ attempts' = attempts \ {a}]_vars

\* C14: for a daily payload whose time array has n entries the shaped
\* forecast has exactly min(n, 5) entries, entry i carries time[i] as its
\* date (input order kept), and 7 days give exactly 5 entries.
C14_FirstFiveInOrder ==
  (weather # NULL /\ weather.daily # Absent) =>
    LET n == Len(weather.daily.time)
        f == fiveDay(weather)
    IN /\ Len(f) = Min(n, 5)
       /\ \A i \in 1..Min(n, 5) : f[i].date = weather.daily.time[i]
       /\ (n = 7 => Len(f) = 5)

\* C14 witness: a seven-day payload was committed and shaped to five entries
C14_Witness ==
  /\ weather # NULL
  /\ weather.daily # Absent
  /\ Len(weather.daily.time) = 7
  /\ Len(fiveDay(weather)) = 5
  /\ fiveDay(weather)[5].date = weather.daily.time[5]

\* the series behind each non-date field of a shaped entry
FieldSeries ==
  [code |-> "weather_code", tmax |-> "temperature_2m_max", tmin |-> "temperature_2m_min",
   ppop |-> "precipitation_probability_max", wmax |-> "wind_speed_10m_max"]

\* C15: a successful forecast response commits without an error whether or
\* not it carries the wind-max series; without the series every shaped
\* entry has wmax unknown, and in general each non-date field of entry i is
\* element i of its series when the series exists and has that index, and
\* unknown otherwise.
C15_MissingSeriesUnknown ==
  [][\A a \in attempts :
       a \notin attempts' =>
         \A resp \in ShapeResponses(a.lat, a.lon) :
           (resp.ok /\ ForecastResponse(a, resp)) =>
             LET d == resp.daily
                 f == fiveDay(weather')
             IN /\ error' = NoError
                /\ ~loading'
                /\ weather' # NULL
                /\ weather'.daily = d
                /\ ("wind_speed_10m_max" \notin DOMAIN d =>
                      \A i \in 1..Len(f) : f[i].wmax = Absent)
                /\ \A i \in 1..Len(f) : \A g \in DOMAIN FieldSeries :
                     f[i][g] = IF FieldSeries[g] \in DOMAIN d /\ i <= Len(d[FieldSeries[g]])
                                 THEN [val |-> d[FieldSeries[g]][i]]
                                 ELSE Absent]_vars

\* C15 witness: a payload without the wind-max series and with temperature
\* series shorter than the dates was committed with no error
C15_Witness ==
  /\ weather # NULL
  /\ weather.daily # Absent
  /\ error = NoError
  /\ ~loading
  /\ "wind_speed_10m_max" \notin DOMAIN weather.daily
  /\ Len(fiveDay(weather)) = 5
  /\ fiveDay(weather)[5].wmax = Absent
  /\ fiveDay(weather)[1].tmax # Absent
  /\ fiveDay(weather)[5].tmax = Absent

\* C16 (as claimed): when the only suggest request in flight, the one issued
\* last, is answered by a failure (network, malformed body) or by zero
\* results, the suggestion list is empty afterwards.
C16_FailureEmptiesList ==
  [][(/\ suggestReqs' = {}
      /\ \E r \in suggestReqs : suggestReqs = {r} /\ r.id = nSuggest
      /\ suggestOutcome' \in {"network", "malformed", "empty"}) => suggestions' = <<>>]_vars

\* C17 (as claimed): in every forecast card an absent maximum or minimum
\* temperature is rendered as no text at all, under either unit system,
\* and so is an absent wind maximum.
C17_UnknownRenderedOmitted ==
  \A i \in 1..Len(fiveDay(weather)) :
    LET d == fiveDay(weather)[i]
    IN /\ (d.tmax = Absent => TempText(d.tmax) = <<>>)
       /\ (d.tmin = Absent => TempText(d.tmin) = <<>>)
       /\ (d.wmax = Absent => WindText(d.wmax) = <<>>)

\* C18 (as claimed): loading is true in every state in which a resolution
\* attempt (geocoding, forecast or geolocation request) is outstanding.
C18_LoadingWhileOutstanding == attempts # {} => loading

\* C19 (as claimed): the query text written by a pick schedules no
\* autosuggest call: after the pick no debounce timer is pending for it.
C19_PickSchedulesNothing ==
  [][(nAttempts' # nAttempts /\ suggestions # <<>> /\ \E i \in 1..MaxPick : PickSuggestion(i)) =>
       (timer' = NULL \/ timer'.text # query')]_vars

\* C20 (as claimed): the answer to a suggest request that arrives after the
\* answer to a request issued later leaves the suggestion list as it is.
C20_StaleSuggestIgnored ==
  [][\A r \in suggestReqs :
       (/\ r \notin suggestReqs'
        /\ nSuggest' = nSuggest
        /\ \E k \in (r.id + 1)..nSuggest : \A q \in suggestReqs : q.id # k)
         => suggestions' = suggestions]_vars

====
